---- MODULE Spec2Model ----
(***************************************************************************)
(* A model of marks (src/main.py), a curses bookmark manager: the filter   *)
(* pipeline, the navigation state of the main loop and the record          *)
(* operations (add, edit, move, delete).                                   *)
(*                                                                         *)
(* Python strings are sequences of one-character strings, so that          *)
(* strip(), split(), lower() and the `in` substring test are computed      *)
(* as the code computes them.  Indices into Python lists are 0-based;      *)
(* the model keeps the 0-based values of `selected`, `offset` and of the   *)
(* original index of a display item, and adds 1 where it indexes a         *)
(* TLA+ sequence.                                                          *)
(***************************************************************************)
EXTENDS Integers, Sequences, FiniteSets, TLC

VARIABLES
    bookmarks,              \* the collection: a sequence of records
    selected,               \* index of the selected display item (0-based)
    offset,                 \* index of the first painted display item
    status,                 \* status text
    folder_filter,          \* "" or the folder shown
    last_folder,            \* default folder of the next Add
    search_query,           \* the search query in effect
    focus,                  \* "list" or "detail"
    detail_selected,        \* cursor in the detail pane
    settings_mode,          \* TRUE while the settings screen is shown
    settings_view,          \* "menu" or "colors"
    settings_selected_idx,  \* cursor of the color picker
    accent_fg,              \* accent color in memory
    config,                 \* settings store: <<>> or <<accent_color>>
    h, w,                   \* terminal size, as stdscr.getmaxyx() returns it
    pc,                     \* position of the main loop
    display_items,          \* local of main: sequence of <<index, record>>
    detail_lines,           \* local of main: the 4 detail lines, or none
    list_height,            \* local of main: returned by draw_ui
    key,                    \* local of main: the key just dispatched
    title, url,             \* locals of main: what the prompts returned
    confirm,                \* local of main: answer of the delete confirmation
    store,                  \* bookmark file: the collections written to it
    COLORS,                 \* curses.COLORS of the terminal
    data_file,              \* DATA_FILE as load_bookmarks finds it
    prompt,                 \* prompt_input: its label, while a line editor is open
    buf, pos, view_start,   \* prompt_input: buffer, cursor, first visible column
    changed,                \* prompt_input: the last key changed the buffer
    on_change,              \* prompt_input: TRUE if a callback was supplied
    called,                 \* what on_change was called with in the last pass, if it was
    modal_ch,               \* ch: the key a modal has just read
    picker_options,         \* folder_picker: options
    picker_initial_idx,     \* folder_picker: initial_idx
    picker_idx,             \* folder_picker: idx, the highlighted index
    returned,               \* what the last modal returned
    entry                   \* search_query, selected, offset when the key of the
                            \* running handler was read

vars ==
    <<bookmarks, selected, offset, status, folder_filter, last_folder, search_query,
      focus, detail_selected, settings_mode, settings_view, settings_selected_idx,
      accent_fg, config, h, w, pc, display_items, detail_lines, list_height,
      key, title, url, confirm, store, COLORS, data_file,
      prompt, buf, pos, view_start, changed, on_change, called, modal_ch,
      picker_options, picker_initial_idx, picker_idx, returned, entry>>

\* the locals of the modals
modalVars ==
    <<prompt, buf, pos, view_start, changed, on_change, called, modal_ch,
      picker_options, picker_initial_idx, picker_idx, returned, entry>>

(***************************************************************************)
(* Bounds of the model                                                     *)
(***************************************************************************)
MaxBookmarks == 2       \* Add is enabled while the collection is shorter
MaxStr == 1             \* longest text a prompt returns
MaxKeys == 1            \* keys typed into one modal before Enter / Escape
MaxHeight == 10         \* the taller of the two terminal sizes
NumColors == 2          \* curses.COLORS of the terminal of a session
MaxQueryLen == 3        \* filter pipeline: length of the queries tried
MaxFilterLen == 2       \* filter pipeline: length of the collections tried
MaxModalBookmarks == 3  \* modals: length of the collections tried
MaxEditorBookmarks == 1 \* line editor: length of the collections tried
MaxBuf == 2             \* modals: the line editor inserts while buf is shorter

(***************************************************************************)
(* Python str operations                                                   *)
(***************************************************************************)
S_General == <<"G", "e", "n", "e", "r", "a", "l">>
S_AddNew == <<"<", "A", "d", "d", " ", "n", "e", "w", ">">>
S_All == <<"<", "A", "l", "l", ">">>

\* code points of the characters the model uses (ASCII)
Ord(c) ==
    CASE c = " " -> 32 [] c = "/" -> 47 [] c = "<" -> 60 [] c = ">" -> 62
      [] c = "A" -> 65 [] c = "B" -> 66 [] c = "G" -> 71 [] c = "W" -> 87
      [] c = "a" -> 97 [] c = "b" -> 98 [] c = "d" -> 100 [] c = "e" -> 101
      [] c = "l" -> 108 [] c = "n" -> 110 [] c = "r" -> 114 [] c = "w" -> 119

\* str.lower() on one character
LowerChar(c) ==
    CASE c = "A" -> "a" [] c = "B" -> "b" [] c = "G" -> "g" [] c = "W" -> "w"
      [] OTHER -> c

lower(s) == [i \in 1..Len(s) |-> LowerChar(s[i])]

RECURSIVE lstrip(_)
lstrip(s) == IF s # <<>> /\ Head(s) = " " THEN lstrip(Tail(s)) ELSE s

RECURSIVE rstrip(_)
rstrip(s) ==
    IF s # <<>> /\ s[Len(s)] = " " THEN rstrip(SubSeq(s, 1, Len(s) - 1)) ELSE s

\* str.strip()
strip(s) == rstrip(lstrip(s))

\* length of the longest prefix of s without whitespace
RECURSIVE WordLen(_)
WordLen(s) == IF s = <<>> \/ Head(s) = " " THEN 0 ELSE 1 + WordLen(Tail(s))

\* str.split(): the maximal runs of non-whitespace characters
RECURSIVE split(_)
split(s) ==
    LET t == lstrip(s)
        n == WordLen(t)
    IN  IF t = <<>> THEN <<>>
        ELSE <<SubSeq(t, 1, n)>> \o split(SubSeq(t, n + 1, Len(t)))

\* " ".join(parts)
RECURSIVE join(_)
join(parts) ==
    IF parts = <<>> THEN <<>>
    ELSE IF Len(parts) = 1 THEN parts[1]
    ELSE parts[1] \o <<" ">> \o join(Tail(parts))

\* needle in hay
Contains(hay, needle) ==
    \E i \in 0..(Len(hay) - Len(needle)) :
        SubSeq(hay, i + 1, i + Len(needle)) = needle

\* a < b for Python strings (code point order), as sorted() uses it
RECURSIVE StrLess(_, _)
StrLess(a, b) ==
    IF b = <<>> THEN FALSE
    ELSE IF a = <<>> THEN TRUE
    ELSE IF Head(a) # Head(b) THEN Ord(Head(a)) < Ord(Head(b))
    ELSE StrLess(Tail(a), Tail(b))

\* sorted(set of strings)
RECURSIVE sorted(_)
sorted(S) ==
    IF S = {} THEN <<>>
    ELSE LET m == CHOOSE x \in S : \A y \in S \ {x} : StrLess(x, y)
         IN  <<m>> \o sorted(S \ {m})

\* the sequences over S of length at most n
RECURSIVE SeqsUpTo(_, _)
SeqsUpTo(S, n) ==
    IF n = 0 THEN {<<>>}
    ELSE LET shorter == SeqsUpTo(S, n - 1)
         IN  shorter \cup {Append(q, x) : q \in shorter, x \in S}

(***************************************************************************)
(* Helpers of the main loop                                                *)
(***************************************************************************)
Max(a, b) == IF a >= b THEN a ELSE b
Min(a, b) == IF a <= b THEN a ELSE b

clamp(value, lower_, upper) == Max(lower_, Min(value, upper))

\* ensure_visible with the lower edge one row off
ensure_visible_one_off(sel, off, lh) ==
    IF sel < off THEN sel
    ELSE IF sel >= off + lh THEN sel - lh
    ELSE off

ensure_visible(sel, off, lh) ==
    IF sel < off THEN sel
    ELSE IF sel >= off + lh THEN sel - lh + 1
    ELSE off

Bookmark(t, u, f, n) == [title |-> t, url |-> u, folder |-> f, note |-> n]

(***************************************************************************)
(* The filter pipeline                                                     *)
(***************************************************************************)
RECURSIVE StripSlashes(_)
StripSlashes(s) == IF s # <<>> /\ Head(s) = "/" THEN StripSlashes(Tail(s)) ELSE s

normalize_search(query) ==
    IF query = <<>> THEN <<>> ELSE split(StripSlashes(strip(query)))

\* the text a token is searched in: the four fields, lower-cased and joined
SearchText(bm) ==
    join(<<lower(bm.title), lower(bm.url), lower(bm.folder), lower(bm.note)>>)

\* token in " ".join([...lower() ...])
TokenMatches(bm, token) == Contains(SearchText(bm), token)

\* any() in place of all()
AllTokensMatchAny(bm, tokens) == \E k \in 1..Len(tokens) : TokenMatches(bm, tokens[k])
AllTokensMatch(bm, tokens) == \A k \in 1..Len(tokens) : TokenMatches(bm, tokens[k])

\* the folder comparison without .lower()
FolderMatchesExact(bm, ff) == ff = <<>> \/ bm.folder = ff
FolderMatches(bm, ff) == ff = <<>> \/ lower(bm.folder) = lower(ff)

\* [(idx, bm) for idx, bm in enumerate(bookmarks) if folder matches]
FolderItems(bms, ff) ==
    LET all == [i \in 1..Len(bms) |-> <<i - 1, bms[i]>>]
    IN  SelectSeq(all, LAMBDA it : FolderMatches(it[2], ff))

build_display_items(bms, ff, query) ==
    LET items == FolderItems(bms, ff)
        tokens == normalize_search(query)
    IN  IF tokens # <<>>
        THEN SelectSeq(items, LAMBDA it : AllTokensMatch(it[2], tokens))
        ELSE items


(***************************************************************************)
(* Modal sub-machines, each a function of the keys it reads.  Special keys *)
(* have names of several characters; a printable key is its character.    *)
(***************************************************************************)
\* isprint with q taken for a command key
IsPrintableButQ(ch) == ch \in {"w", " ", "y", "n"}
IsPrintable(ch) == ch \in {"w", " ", "q", "y", "n"}

\* one pass of the loop of prompt_input on a key that does not end it
EditKey(ed, ch) ==
    IF ch = "LEFT" THEN [ed EXCEPT !.pos = Max(0, ed.pos - 1)]
    ELSE IF ch = "RIGHT" THEN [ed EXCEPT !.pos = Min(Len(ed.buf), ed.pos + 1)]
    ELSE IF ch = "BS"
        THEN IF ed.pos > 0
             THEN [buf |-> SubSeq(ed.buf, 1, ed.pos - 1)
                            \o SubSeq(ed.buf, ed.pos + 1, Len(ed.buf)),
                   pos |-> ed.pos - 1]
             ELSE ed
    ELSE IF IsPrintable(ch)
        THEN [buf |-> SubSeq(ed.buf, 1, ed.pos) \o <<ch>>
                        \o SubSeq(ed.buf, ed.pos + 1, Len(ed.buf)),
              pos |-> ed.pos + 1]
    ELSE ed

RECURSIVE prompt_loop(_, _)
prompt_loop(ed, keys) ==
    IF Head(keys) = "ENTER" THEN strip(ed.buf)
    ELSE IF Head(keys) = "ESC" THEN strip(<<>>)
    ELSE prompt_loop(EditKey(ed, Head(keys)), Tail(keys))

\* prompt_input(stdscr, prompt, default) reading `keys`
prompt_input(default, keys) == prompt_loop([buf |-> default, pos |-> Len(default)], keys)

RECURSIVE picker_loop(_, _, _, _)
picker_loop(options, initial_idx, idx, keys) ==
    LET ch == Head(keys)
    IN  IF ch \in {"UP", "k"}
            THEN picker_loop(options, initial_idx, (idx - 1) % Len(options), Tail(keys))
        ELSE IF ch \in {"DOWN", "j"}
            THEN picker_loop(options, initial_idx, (idx + 1) % Len(options), Tail(keys))
        ELSE IF ch = "ENTER" THEN options[idx + 1]
        ELSE IF ch \in {"ESC", "q"} THEN options[initial_idx + 1]
        ELSE picker_loop(options, initial_idx, idx, Tail(keys))

\* folder_picker(stdscr, options, initial_idx) reading `keys`
folder_picker(options, initial_idx, keys) ==
    IF options = <<>> THEN <<>> ELSE picker_loop(options, initial_idx, initial_idx, keys)

gather_folders(bms) ==
    LET folders == sorted({ IF bms[i].folder = <<>> THEN S_General ELSE bms[i].folder :
                              i \in 1..Len(bms) })
    IN  IF folders = <<>> THEN <<S_General>> ELSE folders

\* options.index(x), or 0 where the code catches ValueError
IndexOr0(options, x) ==
    IF \E i \in 1..Len(options) : options[i] = x
    THEN (CHOOSE i \in 1..Len(options) :
              options[i] = x /\ \A j \in 1..(i - 1) : options[j] # x) - 1
    ELSE 0

\* prompt_folder without its `or current_default` fallbacks
prompt_folder_raw(bms, default, pkeys, ekeys) ==
    LET current_default == IF default = <<>> THEN S_General ELSE default
        options == <<S_AddNew>> \o gather_folders(bms)
        choice == folder_picker(options, IndexOr0(options, current_default), pkeys)
    IN  IF choice = S_AddNew THEN prompt_input(<<>>, ekeys) ELSE choice

\* prompt_folder(stdscr, bookmarks, default): the picker reads pkeys and the
\* line editor, when "<Add new>" is chosen, reads ekeys
prompt_folder(bms, default, pkeys, ekeys) ==
    LET current_default == IF default = <<>> THEN S_General ELSE default
        options == <<S_AddNew>> \o gather_folders(bms)
        choice == folder_picker(options, IndexOr0(options, current_default), pkeys)
    IN  IF choice = S_AddNew
        THEN LET new_val == prompt_input(<<>>, ekeys)
             IN  IF new_val = <<>> THEN current_default ELSE new_val
        ELSE IF choice = <<>> THEN current_default ELSE choice

\* the delete confirmation: reads keys until one is y, Y, n or N
RECURSIVE confirm_loop(_)
confirm_loop(keys) ==
    IF Head(keys) \in {"y", "Y", "n", "N"} THEN Head(keys) ELSE confirm_loop(Tail(keys))

(***************************************************************************)
(* The keys the model types into the modals                                *)
(***************************************************************************)
EditorKeys == {"w", " ", "BS", "LEFT", "RIGHT"}
PromptKeySeqs ==
    {Append(body, end) : body \in SeqsUpTo(EditorKeys, MaxKeys), end \in {"ENTER", "ESC"}}
PickerKeySeqs ==
    {Append(body, end) : body \in SeqsUpTo({"k", "j"}, MaxKeys), end \in {"ENTER", "ESC", "q"}}
ConfirmKeySeqs ==
    {Append(body, end) : body \in SeqsUpTo({"q", "ESC", "ENTER"}, MaxKeys),
                         end \in {"y", "Y", "n", "N"}}

\* the key sequences whose result stays within the model's string length
BoundedPromptKeys(default) ==
    {ks \in PromptKeySeqs : Len(prompt_input(default, ks)) <= MaxStr}

\* what prompt_input can return / what prompt_folder can return / what the
\* picker can return, over the key sequences of the model
PromptResults(default) == {prompt_input(default, ks) : ks \in BoundedPromptKeys(default)}
PromptFolderResults(bms, default) ==
    {prompt_folder(bms, default, pk, ek) : pk \in PickerKeySeqs, ek \in BoundedPromptKeys(<<>>)}
PickerResults(options, initial_idx) ==
    {folder_picker(options, initial_idx, pk) : pk \in PickerKeySeqs}
ConfirmResults == {confirm_loop(ks) : ks \in ConfirmKeySeqs}


(***************************************************************************)
(* Layout, as draw_ui and the top of the main loop compute it              *)
(***************************************************************************)
TermSizes == {<<9, 40>>, <<MaxHeight, 25>>}

\* footer_rows of draw_ui: the rule, a status row if there is a status, and
\* the two rows of command_rows(SHORTCUTS_SEGMENTS)
FooterRows(st) == Max(1, 1 + (IF st # <<>> THEN 1 ELSE 0) + 2)
BodyHeight(hh, st) == Max(3, hh - FooterRows(st) - 3)
\* list_height, which draw_ui returns
ListHeight(hh, st) == Max(1, BodyHeight(hh, st) - 2)
ListWidth(ww) == Min(Max(20, (ww * 55) \div 100), Max(10, ww))
DetailWidth(ww) == Max(0, ww - ListWidth(ww))

\* the rows of display_items that draw_ui paints: display_items[offset : offset + list_height]
PaintedRows(items, off, lh) == {i \in 0..(Len(items) - 1) : off <= i /\ i < off + lh}

\* the four lines of the detail pane, each f"{label}:  {value}"
DetailLines(bm) ==
    << <<"Folder", bm.folder>>, <<"Title", bm.title>>, <<"URL", bm.url>>, <<"Note", bm.note>> >>

available_colors == SelectSeq([i \in 1..7 |-> i], LAMBDA code : code < COLORS)

(***************************************************************************)
(* Spec: one interactive session.                                          *)
(*                                                                         *)
(* pc = "draw": the top of the loop has filtered and clamped, draw_ui is   *)
(* about to paint.  pc = "getch": the frame is painted, ensure_visible has *)
(* run and the loop waits for a key.  pc = "settings": the settings screen *)
(* waits for a key.  A key handler runs to the end of its iteration and    *)
(* on through the top of the next one (Continue).                          *)
(***************************************************************************)
\* the value of a local that has not been assigned in this iteration
Unset == <<"unset">>

\* entry before any key was read
NoEntry == [search_query |-> Unset, selected |-> -1, offset |-> -1]

\* data_file where the session is modelled from the loaded collection on
NoFile == [kind |-> "none", items |-> <<>>]

\* no modal is open
NoModal ==
    /\ prompt = Unset /\ buf = <<>> /\ pos = 0 /\ view_start = 0
    /\ changed = FALSE /\ on_change = FALSE /\ called = Unset /\ modal_ch = "none"
    /\ picker_options = <<>> /\ picker_initial_idx = 0 /\ picker_idx = 0
    /\ returned = Unset
    /\ entry = NoEntry

InitRecords ==
    { Bookmark(<<"b">>, <<"b">>, S_General, <<>>),
      Bookmark(<<"b">>, <<"b">>, <<"w">>, <<>>) }

\* the variables a key handler may assign before the loop continues
Cur ==
    [ bookmarks |-> bookmarks, last_folder |-> last_folder, status |-> status,
      folder_filter |-> folder_filter, search_query |-> search_query,
      selected |-> selected, offset |-> offset, focus |-> focus,
      detail_selected |-> detail_selected, settings_mode |-> settings_mode,
      settings_selected_idx |-> settings_selected_idx, h |-> h, w |-> w ]

\* the top of the loop without its clamp
TopSelectedUnclamped(sel, n) == sel
\* selected = clamp(selected, 0, max(0, total - 1)) at the top of the loop
TopSelected(sel, n) == clamp(sel, 0, Max(0, n - 1))

\* the top of the loop in the main view: filter, clamp, detail lines
LoopTop(st) ==
    LET items == build_display_items(st.bookmarks, st.folder_filter, st.search_query)
        sel == TopSelected(st.selected, Len(items))
        lines == IF /\ DetailWidth(st.w) >= 6
                    /\ items # <<>>
                    /\ 0 <= sel /\ sel < Len(items)
                 THEN DetailLines(items[sel + 1][2])
                 ELSE <<>>
    IN  /\ display_items' = items
        /\ selected' = sel
        /\ detail_lines' = lines
        /\ detail_selected' = clamp(st.detail_selected, 0, Max(0, Len(lines) - 1))
        /\ pc' = "draw"

\* the loop goes on with the values st the handler left
Continue(st) ==
    /\ bookmarks' = st.bookmarks
    /\ last_folder' = st.last_folder
    /\ status' = st.status
    /\ folder_filter' = st.folder_filter
    /\ search_query' = st.search_query
    /\ offset' = st.offset
    /\ focus' = st.focus
    /\ settings_mode' = st.settings_mode
    /\ settings_selected_idx' = st.settings_selected_idx
    /\ h' = st.h
    /\ w' = st.w
    /\ IF st.settings_mode
       THEN /\ pc' = "settings"
            /\ selected' = st.selected
            /\ detail_selected' = st.detail_selected
            /\ UNCHANGED <<display_items, detail_lines>>
       ELSE LoopTop(st)
    /\ UNCHANGED list_height

Init ==
    /\ bookmarks \in SeqsUpTo(InitRecords, MaxBookmarks)
    /\ status = <<>>
    /\ folder_filter = <<>>
    /\ last_folder = S_General
    /\ search_query = <<>>
    /\ focus = "list"
    /\ settings_mode = FALSE
    /\ settings_view = "menu"
    /\ settings_selected_idx = 0
    \* load_config() found accent_color = 1
    /\ config = <<1>>
    /\ accent_fg = 1
    /\ \E sz \in TermSizes : h = sz[1] /\ w = sz[2]
    /\ offset = 0
    /\ list_height = 0
    /\ key = "none" /\ title = Unset /\ url = Unset /\ confirm = "none"
    /\ store = <<>>
    /\ COLORS = NumColors
    /\ data_file = NoFile
    /\ NoModal
    \* the first pass through the top of the loop, from selected = 0
    /\ display_items = build_display_items(bookmarks, folder_filter, search_query)
    /\ selected = TopSelected(0, Len(display_items))
    /\ detail_lines = IF DetailWidth(w) >= 6 /\ display_items # <<>>
                      THEN DetailLines(display_items[selected + 1][2])
                      ELSE <<>>
    /\ detail_selected = 0
    /\ pc = "draw"

\* ---- the main view ----

\* draw_ui paints display_items[offset : offset + list_height] with the
\* current selected and offset and returns list_height; then the loop calls
\* ensure_visible and blocks in getch
Draw ==
    /\ pc = "draw"
    /\ list_height' = ListHeight(h, status)
    /\ offset' = ensure_visible(selected, offset, list_height')
    /\ pc' = "getch"
    \* the locals of the last dispatch are dead from here on
    /\ key' = "none" /\ title' = Unset /\ url' = Unset /\ confirm' = "none"
    /\ UNCHANGED modalVars
    /\ UNCHANGED <<bookmarks, selected, status, folder_filter, last_folder, search_query,
                   focus, detail_selected, settings_mode, settings_view,
                   settings_selected_idx, accent_fg, config, h, w, display_items,
                   detail_lines, store, COLORS, data_file>>

\* total, as the top of the loop left it
total == Len(display_items)

\* a key read by the getch of the main view; the handler assigns no prompt local
MainKey(k) ==
    /\ pc = "getch"
    /\ key' = k
    /\ UNCHANGED <<settings_view, accent_fg, config, store, COLORS, data_file>>
    /\ UNCHANGED modalVars

NoPrompt == UNCHANGED <<title, url, confirm>>

\* Tab without its guard: the focus flips whatever the detail pane holds
tab_unguarded(st) ==
    [st EXCEPT !.focus = IF st.focus = "list" THEN "detail" ELSE "list"]
\* focus and detail_selected after Tab
tab(st) ==
    IF st.focus = "list" /\ DetailWidth(st.w) >= 6 /\ detail_lines # <<>>
    THEN [st EXCEPT !.focus = "detail",
                    !.detail_selected =
                        clamp(st.detail_selected, 0, Max(0, Len(detail_lines) - 1))]
    ELSE [st EXCEPT !.focus = "list"]

KeyTab == MainKey("TAB") /\ NoPrompt /\ Continue(tab(Cur))

\* save_bookmarks that writes nothing
save_bookmarks_nothing(written, bms) == written
\* save_bookmarks(bookmarks): json.dump of the collection into DATA_FILE
save_bookmarks(written, bms) == Append(written, bms)

\* q leaves the loop, and main saves the collection
KeyQuit ==
    /\ pc = "getch"
    /\ key' = "q"
    /\ store' = save_bookmarks(store, bookmarks)
    /\ UNCHANGED <<COLORS, data_file>>
    /\ pc' = "exit"
    /\ UNCHANGED modalVars
    /\ UNCHANGED <<bookmarks, selected, offset, status, folder_filter, last_folder,
                   search_query, focus, detail_selected, settings_mode, settings_view,
                   settings_selected_idx, accent_fg, config, h, w, display_items,
                   detail_lines, list_height, title, url, confirm>>

enter_settings(st) ==
    [st EXCEPT !.settings_mode = TRUE,
               !.settings_selected_idx =
                   IF available_colors # <<>>
                   THEN IndexOr0(available_colors, accent_fg)
                   ELSE st.settings_selected_idx]

KeySettings == MainKey("s") /\ NoPrompt /\ Continue(enter_settings(Cur))

\* k / j in a list that wraps at its ends, as the pickers do
move_cursor_wrapping(st, d) ==
    IF st.focus = "detail"
    THEN [st EXCEPT !.detail_selected =
                        clamp(st.detail_selected + d, 0, Max(0, Len(detail_lines) - 1))]
    ELSE [st EXCEPT !.selected = (st.selected + d) % Max(1, Len(display_items))]
\* k / Up (d = -1) and j / Down (d = 1)
move_cursor(st, d) ==
    IF st.focus = "detail"
    THEN [st EXCEPT !.detail_selected =
                        clamp(st.detail_selected + d, 0, Max(0, Len(detail_lines) - 1))]
    ELSE [st EXCEPT !.selected = st.selected + d]

KeyUp == MainKey("k") /\ NoPrompt /\ Continue(move_cursor(Cur, -1))
KeyDown == MainKey("j") /\ NoPrompt /\ Continue(move_cursor(Cur, 1))

\* g / Home and G / End
KeyTop == MainKey("g") /\ NoPrompt /\ Continue([Cur EXCEPT !.selected = 0])
KeyBottom == MainKey("G") /\ NoPrompt /\ Continue([Cur EXCEPT !.selected = Max(0, total - 1)])

\* KEY_RESIZE falls to `else: pass`; the next getmaxyx() returns the new size
KeyResize ==
    /\ MainKey("RESIZE") /\ NoPrompt
    /\ \E sz \in TermSizes \ {<<h, w>>} : Continue([Cur EXCEPT !.h = sz[1], !.w = sz[2]])

\* o: reads display_items[selected] and opens its URL
KeyOpen ==
    /\ MainKey("o")
    /\ url' = IF display_items = <<>> THEN url ELSE display_items[selected + 1][2].url
    /\ UNCHANGED <<title, confirm>>
    /\ Continue(Cur)

\* ---- Add (key a) ----

\* last_folder or folder_filter or "General"
DefaultFolder(st) ==
    IF st.last_folder # <<>> THEN st.last_folder
    ELSE IF st.folder_filter # <<>> THEN st.folder_filter
    ELSE S_General

\* selected after Add: the last item of the folder-filtered list, if any
AddSelected(items, sel) == IF items # <<>> THEN Len(items) - 1 ELSE sel

\* bookmarks.insert(0, ...)
AddAppendFront(bms, rec) == <<rec>> \o bms
\* bookmarks.append(...)
AddAppend(bms, rec) == Append(bms, rec)

\* Add without the two `if not ...: continue` exits
AddAbortedNever(t, u) == FALSE
\* Add is abandoned when the Title or the URL prompt returns ""
AddAborted(t, u) == t = <<>> \/ u = <<>>

\* f, t, u, n: what prompt_folder and the Title, URL and Note prompts return
add(st, f, t, u, n) ==
    IF AddAborted(t, u) THEN st
    ELSE LET bms == AddAppend(st.bookmarks, Bookmark(t, u, f, n))
         IN  [st EXCEPT !.bookmarks = bms,
                        !.last_folder = f,
                        !.selected = AddSelected(FolderItems(bms, st.folder_filter),
                                                 st.selected)]

KeyAdd(f, t, u, n) ==
    /\ MainKey("a")
    /\ AddAborted(t, u) \/ Len(bookmarks) < MaxBookmarks
    /\ title' = t
    /\ url' = IF t = <<>> THEN url ELSE u
    /\ UNCHANGED confirm
    /\ Continue(add(Cur, f, t, u, n))

DoAdd ==
    /\ pc = "getch"
    /\ \E f \in PromptFolderResults(bookmarks, DefaultFolder(Cur)),
          t \in PromptResults(<<>>) :
          IF t = <<>> THEN KeyAdd(f, t, <<>>, <<>>)
          ELSE \E u \in PromptResults(<<>>) :
                  IF u = <<>> THEN KeyAdd(f, t, u, <<>>)
                  ELSE \E n \in PromptResults(<<>>) : KeyAdd(f, t, u, n)

\* ---- Edit (key e) ----

\* bookmarks[selected] = rec: the visible index as the address
SetRecordAtVisibleIndex(bms, oi, rec) == [bms EXCEPT ![selected + 1] = rec]

\* bookmarks with the record at 0-based index oi replaced
SetRecord(bms, oi, rec) == [bms EXCEPT ![oi + 1] = rec]

\* Edit in the detail pane: the field under the cursor
edit_field(st, nf, t, u, n) ==
    LET original_index == display_items[st.selected + 1][1]
        current == display_items[st.selected + 1][2]
        idx == clamp(st.detail_selected, 0, Len(detail_lines) - 1)
    IN  CASE idx = 0 ->
               IF nf = <<>> THEN st
               ELSE [st EXCEPT !.bookmarks = SetRecord(st.bookmarks, original_index,
                                                       [current EXCEPT !.folder = nf]),
                               !.last_folder = nf]
          [] idx = 1 ->
               IF t = <<>> THEN st
               ELSE [st EXCEPT !.bookmarks = SetRecord(st.bookmarks, original_index,
                                                       [current EXCEPT !.title = t])]
          [] idx = 2 ->
               IF u = <<>> THEN st
               ELSE [st EXCEPT !.bookmarks = SetRecord(st.bookmarks, original_index,
                                                       [current EXCEPT !.url = u])]
          [] OTHER ->
               [st EXCEPT !.bookmarks = SetRecord(st.bookmarks, original_index,
                                                  [current EXCEPT !.note = n])]

\* Edit with the focus on the list: title, URL and note in turn
edit_record(st, t, u, n) ==
    LET original_index == display_items[st.selected + 1][1]
        current == display_items[st.selected + 1][2]
    IN  IF t = <<>> \/ u = <<>> THEN st
        ELSE [st EXCEPT !.bookmarks = SetRecord(st.bookmarks, original_index,
                                                Bookmark(t, u, current.folder, n)),
                        !.last_folder = current.folder]

InDetail == focus = "detail" /\ detail_lines # <<>>

edit(st, nf, t, u, n) ==
    IF display_items = <<>> THEN st
    ELSE IF InDetail THEN edit_field(st, nf, t, u, n)
    ELSE edit_record(st, t, u, n)

\* nf, t, u, n: what prompt_folder and the title, URL and note prompts
\* return, for the prompts this Edit shows
KeyEdit(nf, t, u, n) ==
    /\ MainKey("e")
    /\ title' = t
    /\ url' = u
    /\ UNCHANGED confirm
    /\ Continue(edit(Cur, nf, t, u, n))

DoEdit ==
    /\ pc = "getch"
    /\ IF display_items = <<>>
       THEN KeyEdit(<<>>, Unset, Unset, <<>>)
       ELSE LET current == display_items[selected + 1][2]
                idx == clamp(detail_selected, 0, Len(detail_lines) - 1)
            IN  IF InDetail
                THEN CASE idx = 0 ->
                            \E nf \in PromptFolderResults(bookmarks, current.folder) :
                                KeyEdit(nf, Unset, Unset, <<>>)
                       [] idx = 1 ->
                            \E t \in PromptResults(current.title) :
                                KeyEdit(<<>>, t, Unset, <<>>)
                       [] idx = 2 ->
                            \E u \in PromptResults(current.url) :
                                KeyEdit(<<>>, Unset, u, <<>>)
                       [] OTHER ->
                            \E n \in PromptResults(current.note) :
                                KeyEdit(<<>>, Unset, Unset, n)
                ELSE \E t \in PromptResults(current.title) :
                        IF t = <<>> THEN KeyEdit(<<>>, t, Unset, <<>>)
                        ELSE \E u \in PromptResults(current.url) :
                                IF u = <<>> THEN KeyEdit(<<>>, t, u, <<>>)
                                ELSE \E n \in PromptResults(current.note) :
                                        KeyEdit(<<>>, t, u, n)

\* ---- Move (key m) ----

\* display_items as the Move handler rebuilds it
MoveDisplayItems(bms, ff, query) ==
    LET items == FolderItems(bms, ff)
    IN  IF query # <<>>
        THEN SelectSeq(items, LAMBDA it : AllTokensMatch(it[2], normalize_search(query)))
        ELSE items

\* Move that rebuilds the record from title, url and the new folder
move_dropping_note(st, nf) ==
    IF display_items = <<>> \/ nf = <<>> THEN st
    ELSE LET original_index == display_items[st.selected + 1][1]
             current == display_items[st.selected + 1][2]
             bms == SetRecord(st.bookmarks, original_index,
                              Bookmark(current.title, current.url, nf, <<>>))
             items == MoveDisplayItems(bms, st.folder_filter, st.search_query)
         IN  [st EXCEPT !.bookmarks = bms,
                        !.last_folder = nf,
                        !.selected = clamp(st.selected, 0, Max(0, Len(items) - 1))]
\* nf: what prompt_folder returns
move(st, nf) ==
    IF display_items = <<>> \/ nf = <<>> THEN st
    ELSE LET original_index == display_items[st.selected + 1][1]
             current == display_items[st.selected + 1][2]
             bms == SetRecord(st.bookmarks, original_index, [current EXCEPT !.folder = nf])
             items == MoveDisplayItems(bms, st.folder_filter, st.search_query)
         IN  [st EXCEPT !.bookmarks = bms,
                        !.last_folder = nf,
                        !.selected = clamp(st.selected, 0, Max(0, Len(items) - 1))]

KeyMove(nf) == MainKey("m") /\ NoPrompt /\ Continue(move(Cur, nf))

DoMove ==
    /\ pc = "getch"
    /\ IF display_items = <<>>
       THEN KeyMove(<<>>)
       ELSE \E nf \in PromptFolderResults(bookmarks, display_items[selected + 1][2].folder) :
               KeyMove(nf)

\* ---- Delete (key d) ----

\* bookmarks.pop(oi)
Pop(bms, oi) == SubSeq(bms, 1, oi) \o SubSeq(bms, oi + 2, Len(bms))

\* Delete with bookmarks.pop(selected): the visible index as the address
delete_at_visible_index(st, c) ==
    IF display_items = <<>> THEN [st EXCEPT !.status = <<>>]
    ELSE IF c \in {"y", "Y"}
    THEN LET bms == Pop(st.bookmarks, st.selected)
             items == FolderItems(bms, st.folder_filter)
         IN  [st EXCEPT !.bookmarks = bms,
                        !.selected = clamp(st.selected, 0, Max(0, Len(items) - 1)),
                        !.status = <<>>]
    ELSE [st EXCEPT !.status = <<>>]

\* c: the key that ends the confirmation loop
delete(st, c) ==
    IF display_items = <<>> THEN [st EXCEPT !.status = <<>>]
    ELSE IF c \in {"y", "Y"}
    THEN LET bms == Pop(st.bookmarks, display_items[st.selected + 1][1])
             items == FolderItems(bms, st.folder_filter)
         IN  [st EXCEPT !.bookmarks = bms,
                        !.selected = clamp(st.selected, 0, Max(0, Len(items) - 1)),
                        !.status = <<>>]
    ELSE [st EXCEPT !.status = <<>>]

KeyDelete(c) ==
    /\ MainKey("d")
    /\ confirm' = IF display_items = <<>> THEN confirm ELSE c
    /\ UNCHANGED <<title, url>>
    /\ Continue(delete(Cur, c))

DoDelete ==
    /\ pc = "getch"
    /\ IF display_items = <<>> THEN KeyDelete("none")
       ELSE \E c \in ConfirmResults : KeyDelete(c)

\* ---- Search (key /) ----

\* q: what the Search prompt returns.  render_search_preview runs at least
\* once inside the prompt and zeroes selected, offset and detail_selected.
search(st, q) ==
    [st EXCEPT !.search_query = strip(q),
               !.selected = 0,
               !.offset = 0,
               !.detail_selected = 0]

KeySearch(q) == MainKey("/") /\ NoPrompt /\ Continue(search(Cur, q))

DoSearch == pc = "getch" /\ \E q \in PromptResults(<<>>) : KeySearch(q)

\* ---- Folder filter (key f) ----

FilterOptions(bms) == <<S_All>> \o gather_folders(bms)

\* selection: what the picker returns
filter(st, selection) ==
    [st EXCEPT !.folder_filter = IF selection = S_All THEN <<>> ELSE selection,
               !.selected = 0,
               !.offset = 0]

KeyFilter(selection) == MainKey("f") /\ NoPrompt /\ Continue(filter(Cur, selection))

DoFilter ==
    /\ pc = "getch"
    /\ LET options == FilterOptions(bookmarks)
           initial_idx == IF folder_filter # <<>> THEN IndexOr0(options, folder_filter) ELSE 0
       IN  \E selection \in PickerResults(options, initial_idx) : KeyFilter(selection)

\* ---- settings mode (the first branch of the loop) ----

\* a key read by the getch of the settings screen
SettingsKey(k) ==
    /\ pc = "settings"
    /\ key' = k
    /\ UNCHANGED <<title, url, confirm, store, COLORS, data_file>>
    /\ UNCHANGED modalVars

SettingsQuit ==
    /\ SettingsKey("q")
    /\ settings_view' = "menu"
    /\ UNCHANGED <<accent_fg, config>>
    /\ Continue([Cur EXCEPT !.settings_mode = FALSE])

SettingsColors ==
    /\ SettingsKey("c")
    /\ available_colors # <<>>
    /\ settings_view = "menu"
    /\ settings_view' = "colors"
    /\ UNCHANGED <<accent_fg, config>>
    /\ Continue(Cur)

SettingsMove ==
    /\ available_colors # <<>>
    /\ settings_view = "colors"
    /\ \E k \in {"k", "j"} :
          /\ SettingsKey(k)
          /\ Continue([Cur EXCEPT !.settings_selected_idx =
                          (settings_selected_idx + (IF k = "k" THEN -1 ELSE 1))
                              % Len(available_colors)])
    /\ UNCHANGED <<settings_view, accent_fg, config>>

\* apply_accent without its save_config
apply_accent_unsaved(fg_color) ==
    /\ accent_fg' = clamp(fg_color, -1, Max(0, COLORS - 1))
    /\ UNCHANGED config
\* apply_accent(fg_color)
apply_accent(fg_color) ==
    /\ accent_fg' = clamp(fg_color, -1, Max(0, COLORS - 1))
    /\ config' = <<accent_fg'>>

SettingsSelect ==
    /\ SettingsKey("ENTER")
    /\ available_colors # <<>>
    /\ settings_view = "colors"
    /\ apply_accent(available_colors[settings_selected_idx + 1])
    /\ UNCHANGED settings_view
    /\ Continue(Cur)

Next ==
    \/ Draw
    \/ KeyTab
    \/ KeyQuit
    \/ KeySettings
    \/ KeyUp
    \/ KeyDown
    \/ KeyTop
    \/ KeyBottom
    \/ KeyResize
    \/ KeyOpen
    \/ DoAdd
    \/ DoEdit
    \/ DoMove
    \/ DoDelete
    \/ DoSearch
    \/ DoFilter
    \/ SettingsQuit
    \/ SettingsColors
    \/ SettingsMove
    \/ SettingsSelect

Spec == Init /\ [][Next]_vars

(***************************************************************************)
(* Properties of the session                                               *)
(***************************************************************************)
\* the last dispatch was an Add whose Title and URL prompts both returned text
AddSucceeded == key = "a" /\ title \notin {<<>>, Unset} /\ url \notin {<<>>, Unset}

\* C1: every time the main loop blocks in getch, list_height >= 1 and
\* offset <= selected < offset + list_height.
C1_VisibleAtGetch ==
    pc = "getch" =>
        /\ list_height >= 1
        /\ offset <= selected
        /\ selected < offset + list_height

\* the loop waits for a key with the list scrolled: the selected row is the
\* only row of a one-row list pane and is not the first item
C1_Witness ==
    /\ pc = "getch"
    /\ list_height = 1
    /\ selected = 1
    /\ offset = 1
    /\ Len(display_items) = 2

\* C2 (as claimed): every time draw_ui paints a non-empty list, the selected
\* and offset it is given satisfy offset <= selected < offset + list_height,
\* so that the selected row is one of the painted rows.
C2_SelectedIsPainted ==
    (pc = "draw" /\ display_items # <<>>) =>
        /\ offset <= selected
        /\ selected < offset + ListHeight(h, status)
        /\ selected \in PaintedRows(display_items, offset, ListHeight(h, status))

\* C3: at every render 0 <= selected < max(1, len(display_items)), and when a
\* key is read with a non-empty display_items (the case in which Open, Edit,
\* Move and Delete read display_items[selected]) 0 <= selected < len(display_items).
C3_SelectionInRange ==
    /\ pc = "draw" => (0 <= selected /\ selected < Max(1, Len(display_items)))
    /\ (pc = "getch" /\ display_items # <<>>) =>
           (0 <= selected /\ selected < Len(display_items))

\* a Delete confirmed on the last of two visible items: the visible list has
\* shrunk to one item and the selection is on it
C3_Witness ==
    /\ pc = "draw"
    /\ key = "d"
    /\ confirm = "y"
    /\ Len(display_items) = 1
    /\ selected = 0
    /\ offset = 1

\* C8: an Add whose Title or URL prompt returns "" leaves bookmarks as it was.
C8_AbortedAddKeepsCollection ==
    [][(pc = "getch" /\ key' = "a" /\ (title' = <<>> \/ url' = <<>>))
          => bookmarks' = bookmarks]_vars

\* an Add abandoned at the URL prompt, after a title was given, on a
\* collection that is not empty
C8_Witness ==
    /\ pc = "draw"
    /\ key = "a"
    /\ title \notin {<<>>, Unset}
    /\ url = <<>>
    /\ bookmarks # <<>>

\* C9: an Add with a non-empty title and URL makes bookmarks one longer, the
\* new record last, and every earlier record stays at its index.
C9_AddAppends ==
    [][(pc = "getch" /\ key' = "a" /\ title' \notin {<<>>, Unset} /\ url' \notin {<<>>, Unset})
          => /\ Len(bookmarks') = Len(bookmarks) + 1
             /\ \A i \in 1..Len(bookmarks) : bookmarks'[i] = bookmarks[i]
             /\ bookmarks'[Len(bookmarks')].title = title'
             /\ bookmarks'[Len(bookmarks')].url = url']_vars

\* an Add has succeeded on a collection that held a record before
C9_Witness ==
    /\ pc = "draw"
    /\ AddSucceeded
    /\ Len(bookmarks) = 2
    /\ bookmarks[2].title = title
    /\ bookmarks[1].title # title

\* C10 (as claimed): at the render after a successful Add the selected item
\* is the new record, whatever the folder filter, the search query and the
\* folder chosen for the record.
C10_AddSelectsNewRecord ==
    (pc = "draw" /\ AddSucceeded) =>
        /\ display_items # <<>>
        /\ selected = Len(display_items) - 1
        /\ display_items[selected + 1][1] = Len(bookmarks) - 1

(***************************************************************************)
(* SpecFilter: the filter pipeline as a function of its three inputs.      *)
(* The inputs are drawn in the initial state; ApplyFilter runs the         *)
(* pipeline once.                                                          *)
(***************************************************************************)
FilterChars == {"a", "A", "/", " "}
Queries == SeqsUpTo(FilterChars, MaxQueryLen)

FilterRecords ==
    { Bookmark(<<"a">>, <<"b">>, <<"W">>, <<>>),
      Bookmark(<<"A">>, <<"/", "a">>, <<"w">>, <<>>),
      Bookmark(<<"b">>, <<"b">>, <<"w">>, <<"/">>),
      Bookmark(<<"b">>, <<"b">>, S_General, <<>>) }

FilterCollections == SeqsUpTo(FilterRecords, MaxFilterLen)
FilterFolders == {<<>>, <<"w">>, <<"W">>, S_General}

InitFilter ==
    /\ bookmarks \in FilterCollections
    /\ folder_filter \in FilterFolders
    /\ search_query \in Queries
    /\ selected = 0 /\ offset = 0 /\ status = <<>> /\ last_folder = S_General
    /\ focus = "list" /\ detail_selected = 0
    /\ settings_mode = FALSE /\ settings_view = "menu" /\ settings_selected_idx = 0
    /\ accent_fg = 1 /\ config = <<1>>
    /\ h = 9 /\ w = 40
    /\ display_items = <<>> /\ detail_lines = <<>> /\ list_height = 0
    /\ key = "none" /\ title = Unset /\ url = Unset /\ confirm = "none"
    /\ store = <<>>
    /\ COLORS = NumColors
    /\ data_file = NoFile
    /\ NoModal
    /\ pc = "filter"

\* display_items = build_display_items(search_query)
ApplyFilter ==
    /\ pc = "filter"
    /\ display_items' = build_display_items(bookmarks, folder_filter, search_query)
    /\ pc' = "filtered"
    /\ UNCHANGED modalVars
    /\ UNCHANGED <<bookmarks, selected, offset, status, folder_filter, last_folder,
                   search_query, focus, detail_selected, settings_mode, settings_view,
                   settings_selected_idx, accent_fg, config, h, w, detail_lines,
                   list_height, key, title, url, confirm, store, COLORS, data_file>>

NextFilter == ApplyFilter

SpecFilter == InitFilter /\ [][NextFilter]_vars

\* the original indices of a sequence of display items
Indices(items) == {items[k][1] : k \in 1..Len(items)}

\* the original indices the pipeline returns for query q in the current state
ResultOf(q) == Indices(build_display_items(bookmarks, folder_filter, q))

\* C4 (as claimed): a record is in the result of "t1 ... tk" iff it is in the
\* result of every single-token query ti; no token filters nothing out.
C4_TokenAndAsClaimed ==
    pc = "filtered" =>
        LET tokens == normalize_search(search_query)
        IN  /\ tokens = <<>> => display_items = FolderItems(bookmarks, folder_filter)
            /\ tokens # <<>> =>
                 \A i \in 0..(Len(bookmarks) - 1) :
                    (i \in Indices(display_items))
                        <=> (\A k \in 1..Len(tokens) : i \in ResultOf(tokens[k]))

\* a token that, used as a query of its own, is tokenized to itself
PlainToken(t) == Head(t) # "/"

\* C4 (amended): the same, for the queries none of whose tokens begins with
\* '/' (a '/' at the start of a later token is part of the token, while the
\* same text as a query of its own loses it).
C4_TokenAnd ==
    pc = "filtered" =>
        LET tokens == normalize_search(search_query)
        IN  /\ tokens = <<>> => display_items = FolderItems(bookmarks, folder_filter)
            /\ (tokens # <<>> /\ \A k \in 1..Len(tokens) : PlainToken(tokens[k])) =>
                 \A i \in 0..(Len(bookmarks) - 1) :
                    (i \in Indices(display_items))
                        <=> (\A k \in 1..Len(tokens) : i \in ResultOf(tokens[k]))

\* two plain tokens, and the search stage removed one record and kept another
C4_Witness ==
    /\ pc = "filtered"
    /\ LET tokens == normalize_search(search_query)
       IN  /\ Len(tokens) = 2
           /\ \A k \in 1..Len(tokens) : PlainToken(tokens[k])
    /\ display_items # <<>>
    /\ Len(display_items) < Len(FolderItems(bookmarks, folder_filter))

\* C5 (as claimed): matching ignores letter case: queries that differ only in
\* case give the same result, and a record passes iff every token, lower-cased,
\* occurs in its lower-cased joined fields.
C5_CaseInsensitive ==
    pc = "filtered" =>
        /\ \A q \in Queries :
              lower(q) = lower(search_query) =>
                  build_display_items(bookmarks, folder_filter, q) = display_items
        /\ LET tokens == normalize_search(search_query)
           IN  Indices(display_items) =
                 { i \in Indices(FolderItems(bookmarks, folder_filter)) :
                     \A k \in 1..Len(tokens) :
                        Contains(SearchText(bookmarks[i + 1]), lower(tokens[k])) }

\* C6: the original indices increase strictly, each pair holds the record at
\* its index, and without a search the result is exactly the records whose
\* folder equals the filter ignoring case (all records for an empty filter).
C6_OrderAndAddressing ==
    pc = "filtered" =>
        LET kept == { i \in 0..(Len(bookmarks) - 1) :
                        \/ folder_filter = <<>>
                        \/ lower(bookmarks[i + 1].folder) = lower(folder_filter) }
        IN  /\ \A k \in 1..(Len(display_items) - 1) :
                  display_items[k][1] < display_items[k + 1][1]
            /\ \A k \in 1..Len(display_items) :
                  /\ display_items[k][1] \in 0..(Len(bookmarks) - 1)
                  /\ display_items[k][2] = bookmarks[display_items[k][1] + 1]
            /\ Indices(display_items) \subseteq kept
            /\ normalize_search(search_query) = <<>> => Indices(display_items) = kept
            /\ Indices(FolderItems(bookmarks, folder_filter)) = kept

\* two records returned, one of them kept by a folder filter that differs in
\* case from its folder
C6_Witness ==
    /\ pc = "filtered"
    /\ Len(display_items) = 2
    /\ \E k \in 1..Len(display_items) :
          /\ display_items[k][2].folder # folder_filter
          /\ lower(display_items[k][2].folder) = lower(folder_filter)

(***************************************************************************)
(* SpecModal: one key handler of the main view, from a state in which the  *)
(* loop waits for a key, with its modal run one key at a time.             *)
(*                                                                         *)
(* pc = "editor_getch": prompt_input has repainted and waits in getch.     *)
(* pc = "picker_getch": folder_picker waits in getch.                      *)
(* pc = "confirm_getch": the delete confirmation waits in getch.           *)
(* The handler ends at the top of the next iteration (pc = "draw").        *)
(***************************************************************************)
ModalRecords ==
    { Bookmark(<<"b">>, <<"b">>, S_General, <<>>),
      Bookmark(<<"b">>, <<"w">>, <<"w">>, <<"b">>) }

ModalQueries == {<<>>, <<"w">>}
ModalFilters == {<<>>, <<"w">>}
ModalSizes == {<<MaxHeight, 40>>, <<9, 4>>}

\* a state the main loop can wait in, with a collection of at most n
\* records: what the top of the loop and ensure_visible establish
ModalStart(n) ==
    /\ bookmarks \in SeqsUpTo(ModalRecords, n)
    /\ folder_filter \in ModalFilters
    /\ search_query \in ModalQueries
    /\ status = <<>>
    /\ last_folder = S_General
    /\ settings_mode = FALSE /\ settings_view = "menu" /\ settings_selected_idx = 0
    /\ config = <<1>> /\ accent_fg = 1
    /\ \E sz \in ModalSizes : h = sz[1] /\ w = sz[2]
    /\ display_items = build_display_items(bookmarks, folder_filter, search_query)
    /\ selected \in 0..Max(0, Len(display_items) - 1)
    /\ list_height = ListHeight(h, status)
    /\ offset \in {o \in 0..selected : selected < o + list_height}
    /\ detail_lines = IF DetailWidth(w) >= 6 /\ display_items # <<>>
                      THEN DetailLines(display_items[selected + 1][2])
                      ELSE <<>>
    /\ focus \in {"list", "detail"}
    /\ detail_selected \in IF focus = "detail" THEN 0..Max(0, Len(detail_lines) - 1) ELSE {0}
    /\ key = "none" /\ title = Unset /\ url = Unset /\ confirm = "none"
    /\ store = <<>>
    /\ COLORS = NumColors
    /\ data_file = NoFile
    /\ NoModal
    /\ pc = "getch"

InitModal == ModalStart(MaxModalBookmarks)

\* ---- prompt_input, one pass of its loop per action ----

\* max_len and display_width
MaxLenOf(ww) == Max(3, ww - 1)
DisplayWidth(ww) == MaxLenOf(ww) - 2

\* view_start as every repaint recomputes it, with the two-sided test
\* replaced by one that only follows the cursor to the left
ViewStartLeftOnly(vs, p, n, dw) ==
    LET moved == IF p < vs THEN p ELSE vs
    IN  Max(0, Min(moved, Max(0, n - dw)))

\* view_start as every repaint recomputes it
ViewStart(vs, p, n, dw) ==
    LET moved == IF p < vs THEN p
                 ELSE IF p > vs + dw THEN p - dw
                 ELSE vs
    IN  Max(0, Min(moved, Max(0, n - dw)))

\* on_change is called on every pass
CallbackDueAlways(chg, cb) == cb

\* `if changed and on_change is not None`
CallbackDue(chg, cb) == chg /\ cb

\* the part of a pass of the loop before getch: on_change (which is
\* render_search_preview), then the repaint; b, p, chg are buf, pos and
\* changed as the previous key left them
EditorPass(b, p, chg) ==
    /\ buf' = b
    /\ pos' = p
    /\ changed' = chg
    /\ view_start' = ViewStart(view_start, p, Len(b), DisplayWidth(w))
    /\ IF CallbackDue(chg, on_change)
       THEN /\ called' = b
            /\ search_query' = strip(b)
            /\ selected' = 0
            /\ offset' = 0
            /\ detail_selected' = 0
       ELSE /\ called' = Unset
            /\ UNCHANGED <<search_query, selected, offset, detail_selected>>
    /\ pc' = "editor_getch"

\* prompt_input(stdscr, label, default, on_change=cb) up to its first getch;
\* vs0 is view_start before the first repaint
OpenEditor(label, default, cb) ==
    /\ prompt' = label
    /\ on_change' = cb
    /\ buf' = default
    /\ pos' = Len(default)
    /\ changed' = TRUE
    /\ view_start' = ViewStart(0, Len(default), Len(default), DisplayWidth(w))
    /\ IF CallbackDue(TRUE, cb)
       THEN /\ called' = default
            /\ search_query' = strip(default)
            /\ selected' = 0
            /\ offset' = 0
            /\ detail_selected' = 0
       ELSE /\ called' = Unset
            /\ UNCHANGED <<search_query, selected, offset, detail_selected>>
    /\ pc' = "editor_getch"

\* what no modal step touches
ModalFrame ==
    UNCHANGED <<settings_view, accent_fg, config, store, COLORS, data_file, status, folder_filter,
                last_folder, focus, settings_mode, settings_selected_idx, h, w,
                display_items, detail_lines, list_height>>

\* a key that does not end prompt_input: left, right, backspace, printable
EditorKey(c) ==
    /\ pc = "editor_getch"
    /\ c \notin {"ENTER", "ESC"}
    /\ IsPrintable(c) => Len(buf) < MaxBuf
    /\ modal_ch' = c
    /\ LET ed == EditKey([buf |-> buf, pos |-> pos], c)
       IN  EditorPass(ed.buf, ed.pos, (c = "BS" /\ pos > 0) \/ IsPrintable(c))
    /\ UNCHANGED <<prompt, on_change, picker_options, picker_initial_idx, picker_idx,
                   returned, entry, bookmarks, key, title, url, confirm>>
    /\ ModalFrame

\* "".join(buf) without .strip()
EditorResultUntrimmed(b, c) == IF c = "ESC" THEN <<>> ELSE b

\* "".join(buf).strip() after Enter (c = "ENTER") or Escape (c = "ESC")
EditorResult(b, c) == IF c = "ESC" THEN strip(<<>>) ELSE strip(b)

\* the locals of prompt_input when it returns on key c
CloseEditor(c) ==
    /\ modal_ch' = c
    /\ buf' = IF c = "ESC" THEN <<>> ELSE buf
    /\ changed' = (c = "ESC")
    /\ called' = Unset
    /\ returned' = EditorResult(buf, c)
    /\ UNCHANGED <<pos, view_start, on_change>>

\* the handler is over: the modal locals that stay as they are
ModalRest ==
    UNCHANGED <<settings_view, accent_fg, config, store, COLORS, data_file, picker_options,
                picker_initial_idx, picker_idx, entry>>

\* ---- Search (key /) ----

\* search_query, selected and offset when the key is read
Entry == [search_query |-> search_query, selected |-> selected, offset |-> offset]

EnterSearch ==
    /\ pc = "getch"
    /\ key' = "/"
    /\ entry' = Entry
    /\ modal_ch' = "none"
    \* search_query = "", selected = 0, offset = 0, then the prompt opens
    /\ OpenEditor(<<"Search">>, <<>>, TRUE)
    /\ UNCHANGED <<bookmarks, title, url, confirm, picker_options, picker_initial_idx,
                   picker_idx, returned>>
    /\ ModalFrame

EndSearch(c) ==
    /\ pc = "editor_getch"
    /\ prompt = <<"Search">>
    /\ c \in {"ENTER", "ESC"}
    /\ CloseEditor(c)
    /\ Continue(search(Cur, returned'))
    /\ UNCHANGED <<prompt, key, title, url, confirm>>
    /\ ModalRest

\* ---- Edit (key e) ----

EditPrompts == {<<"Edit title">>, <<"Edit URL">>, <<"Edit note">>}

\* the record Edit works on
EditCurrent == display_items[selected + 1][2]

EnterEdit ==
    /\ pc = "getch"
    /\ key' = "e"
    /\ entry' = Entry
    /\ modal_ch' = "none"
    /\ UNCHANGED <<title, url, confirm, picker_options, picker_initial_idx, picker_idx>>
    /\ IF display_items = <<>>
       THEN /\ Continue(Cur)
            /\ UNCHANGED <<prompt, buf, pos, view_start, changed, on_change, called,
                           returned, settings_view, accent_fg, config, store, COLORS, data_file>>
       ELSE LET fidx == clamp(detail_selected, 0, Len(detail_lines) - 1)
            IN  IF InDetail /\ fidx = 0
                THEN \E nf \in PromptFolderResults(bookmarks, EditCurrent.folder) :
                        /\ returned' = nf
                        /\ Continue(edit_field(Cur, nf, Unset, Unset, <<>>))
                        /\ UNCHANGED <<prompt, buf, pos, view_start, changed, on_change,
                                       called, settings_view, accent_fg, config, store, COLORS, data_file>>
                ELSE /\ IF InDetail /\ fidx = 2
                        THEN OpenEditor(<<"Edit URL">>, EditCurrent.url, FALSE)
                        ELSE IF InDetail /\ fidx = 3
                        THEN OpenEditor(<<"Edit note">>, EditCurrent.note, FALSE)
                        ELSE OpenEditor(<<"Edit title">>, EditCurrent.title, FALSE)
                     /\ UNCHANGED <<bookmarks, returned>>
                     /\ ModalFrame

\* prompt_input returns to Edit on key c
EndEdit(c) ==
    /\ pc = "editor_getch"
    /\ prompt \in EditPrompts
    /\ c \in {"ENTER", "ESC"}
    /\ LET r == EditorResult(buf, c)
       IN  IF InDetail
           THEN \* one field was prompted for
                /\ CloseEditor(c)
                /\ title' = IF prompt = <<"Edit title">> THEN r ELSE title
                /\ url' = IF prompt = <<"Edit URL">> THEN r ELSE url
                /\ Continue(edit_field(Cur, <<>>, r, r, r))
                /\ UNCHANGED <<prompt, key, confirm>>
                /\ ModalRest
           ELSE IF prompt = <<"Edit title">>
           THEN /\ title' = r
                /\ modal_ch' = c
                /\ returned' = r
                /\ IF r = <<>>
                   THEN /\ buf' = IF c = "ESC" THEN <<>> ELSE buf
                        /\ changed' = (c = "ESC")
                        /\ called' = Unset
                        /\ Continue(Cur)
                        /\ UNCHANGED <<prompt, pos, view_start, on_change>>
                        /\ ModalRest
                   ELSE /\ OpenEditor(<<"Edit URL">>, EditCurrent.url, FALSE)
                        /\ UNCHANGED <<bookmarks, picker_options, picker_initial_idx,
                                       picker_idx, entry>>
                        /\ ModalFrame
                /\ UNCHANGED <<url, key, confirm>>
           ELSE IF prompt = <<"Edit URL">>
           THEN /\ url' = r
                /\ modal_ch' = c
                /\ returned' = r
                /\ IF r = <<>>
                   THEN /\ buf' = IF c = "ESC" THEN <<>> ELSE buf
                        /\ changed' = (c = "ESC")
                        /\ called' = Unset
                        /\ Continue(Cur)
                        /\ UNCHANGED <<prompt, pos, view_start, on_change>>
                        /\ ModalRest
                   ELSE /\ OpenEditor(<<"Edit note">>, EditCurrent.note, FALSE)
                        /\ UNCHANGED <<bookmarks, picker_options, picker_initial_idx,
                                       picker_idx, entry>>
                        /\ ModalFrame
                /\ UNCHANGED <<title, key, confirm>>
           ELSE /\ CloseEditor(c)
                /\ Continue(edit_record(Cur, title, url, r))
                /\ UNCHANGED <<prompt, title, url, key, confirm>>
                /\ ModalRest

\* ---- Delete (key d) ----

EnterDelete ==
    /\ pc = "getch"
    /\ key' = "d"
    /\ entry' = Entry
    /\ modal_ch' = "none"
    /\ UNCHANGED <<title, url, confirm, prompt, buf, pos, view_start, changed, on_change,
                   called, picker_options, picker_initial_idx, picker_idx, returned,
                   settings_view, accent_fg, config, store, COLORS, data_file>>
    /\ IF display_items = <<>>
       THEN Continue(delete(Cur, "none"))
       ELSE /\ pc' = "confirm_getch"
            /\ UNCHANGED <<bookmarks, selected, offset, status, folder_filter, last_folder,
                           search_query, focus, detail_selected, settings_mode,
                           settings_selected_idx, h, w, display_items, detail_lines,
                           list_height>>

\* one pass of `while confirm not in (y, Y, n, N): confirm = stdscr.getch()`
ConfirmKey(c) ==
    /\ pc = "confirm_getch"
    /\ confirm' = c
    /\ modal_ch' = c
    /\ UNCHANGED <<key, title, url, prompt, buf, pos, view_start, changed, on_change,
                   called, picker_options, picker_initial_idx, picker_idx, returned,
                   entry, settings_view, accent_fg, config, store, COLORS, data_file>>
    /\ IF c \in {"y", "Y", "n", "N"}
       THEN Continue(delete(Cur, c))
       ELSE /\ pc' = "confirm_getch"
            /\ UNCHANGED <<bookmarks, selected, offset, status, folder_filter, last_folder,
                           search_query, focus, detail_selected, settings_mode,
                           settings_selected_idx, h, w, display_items, detail_lines,
                           list_height>>

\* ---- Folder filter (key f) ----

EnterFilter ==
    /\ pc = "getch"
    /\ key' = "f"
    /\ entry' = Entry
    /\ modal_ch' = "none"
    /\ picker_options' = FilterOptions(bookmarks)
    /\ picker_initial_idx' = IF folder_filter # <<>>
                             THEN IndexOr0(picker_options', folder_filter)
                             ELSE 0
    /\ picker_idx' = picker_initial_idx'
    /\ pc' = "picker_getch"
    /\ UNCHANGED <<title, url, confirm, prompt, buf, pos, view_start, changed, on_change,
                   called, returned, settings_view, accent_fg, config, store, COLORS, data_file>>
    /\ UNCHANGED <<bookmarks, selected, offset, status, folder_filter, last_folder,
                   search_query, focus, detail_selected, settings_mode,
                   settings_selected_idx, h, w, display_items, detail_lines, list_height>>

\* Escape and q return options[idx] too
PickerReturnHighlighted(c, opts, init, i) == opts[i + 1]

\* what folder_picker returns on a key that ends it
PickerReturn(c, opts, init, i) == IF c = "ENTER" THEN opts[i + 1] ELSE opts[init + 1]

\* idx after a key that does not end folder_picker
PickerMove(c, i, n) ==
    IF c \in {"UP", "k"} THEN (i - 1) % n
    ELSE IF c \in {"DOWN", "j"} THEN (i + 1) % n
    ELSE i

PickerKey(c) ==
    /\ pc = "picker_getch"
    /\ modal_ch' = c
    /\ UNCHANGED <<key, title, url, confirm, prompt, buf, pos, view_start, changed,
                   on_change, called, picker_options, picker_initial_idx, entry,
                   settings_view, accent_fg, config, store, COLORS, data_file>>
    /\ IF c \in {"ENTER", "ESC", "q"}
       THEN /\ returned' = PickerReturn(c, picker_options, picker_initial_idx, picker_idx)
            /\ UNCHANGED picker_idx
            /\ Continue(filter(Cur, returned'))
       ELSE /\ picker_idx' = PickerMove(c, picker_idx, Len(picker_options))
            /\ pc' = "picker_getch"
            /\ UNCHANGED returned
            /\ UNCHANGED <<bookmarks, selected, offset, status, folder_filter, last_folder,
                           search_query, focus, detail_selected, settings_mode,
                           settings_selected_idx, h, w, display_items, detail_lines,
                           list_height>>

\* the keys typed into the modals
EditorKeysTyped == {"w", "BS"}
PickerKeysTyped == {"k", "j", "w", "ENTER", "ESC", "q"}
ConfirmKeysTyped == {"y", "Y", "n", "N", "q", "ESC", "ENTER"}

NextModal ==
    \/ EnterSearch
    \/ \E c \in EditorKeysTyped : EditorKey(c)
    \/ \E c \in {"ENTER", "ESC"} : EndSearch(c)
    \/ EnterEdit
    \/ \E c \in {"ENTER", "ESC"} : EndEdit(c)
    \/ EnterDelete
    \/ \E c \in ConfirmKeysTyped : ConfirmKey(c)
    \/ EnterFilter
    \/ \E c \in PickerKeysTyped : PickerKey(c)

SpecModal == InitModal /\ [][NextModal]_vars

(***************************************************************************)
(* SpecEditor: the handlers that open prompt_input (Search, Edit), on      *)
(* small collections, with every kind of key typed into the line editor.   *)
(***************************************************************************)
InitEditor == ModalStart(MaxEditorBookmarks)

NextEditor ==
    \/ EnterSearch
    \/ \E c \in EditorKeys : EditorKey(c)
    \/ \E c \in {"ENTER", "ESC"} : EndSearch(c)
    \/ EnterEdit
    \/ \E c \in {"ENTER", "ESC"} : EndEdit(c)

SpecEditor == InitEditor /\ [][NextEditor]_vars

(***************************************************************************)
(* SpecKeys: the key q in every view: the main view, the settings screen,  *)
(* the line editor, the delete confirmation and the folder picker.         *)
(***************************************************************************)
InitKeys == ModalStart(MaxEditorBookmarks)

NextKeys ==
    \/ KeyQuit
    \/ KeySettings
    \/ SettingsColors
    \/ SettingsQuit
    \/ EnterSearch
    \/ \E c \in {"q", "BS"} : EditorKey(c)
    \/ \E c \in {"ENTER", "ESC"} : EndSearch(c)
    \/ EnterDelete
    \/ \E c \in {"q", "y", "n"} : ConfirmKey(c)
    \/ EnterFilter
    \/ \E c \in {"q", "j", "ENTER"} : PickerKey(c)

SpecKeys == InitKeys /\ [][NextKeys]_vars

(***************************************************************************)
(* Properties of the handlers and their modals                             *)
(***************************************************************************)
\* the original index of the selected display item
SelectedIndex == display_items[selected + 1][1]

\* C11: Delete changes bookmarks only on y / Y, and then removes exactly the
\* record at the original index of the selected display item, the others
\* keeping their order; n / N leaves bookmarks as it is and ends the
\* confirmation; any other key leaves bookmarks as it is and the
\* confirmation open.
C11_DeleteOnConfirmation ==
    [][/\ (pc = "getch" /\ key' = "d") => bookmarks' = bookmarks
       /\ pc = "confirm_getch" =>
            /\ bookmarks[SelectedIndex + 1] = display_items[selected + 1][2]
            /\ modal_ch' \in {"y", "Y"} =>
                 /\ pc' = "draw"
                 /\ Len(bookmarks') = Len(bookmarks) - 1
                 /\ \A i \in 1..SelectedIndex : bookmarks'[i] = bookmarks[i]
                 /\ \A i \in (SelectedIndex + 1)..Len(bookmarks') :
                        bookmarks'[i] = bookmarks[i + 1]
            /\ modal_ch' \in {"n", "N"} => (pc' = "draw" /\ bookmarks' = bookmarks)
            /\ modal_ch' \notin {"y", "Y", "n", "N"} =>
                 (pc' = "confirm_getch" /\ bookmarks' = bookmarks)]_vars

\* a Delete confirmed with y under a folder filter and a search query, where
\* a record of another folder comes first, so that the visible index of the
\* deleted record was not its original index
C11_Witness ==
    /\ pc = "draw"
    /\ key = "d"
    /\ confirm = "y"
    /\ folder_filter = <<"w">>
    /\ search_query = <<"w">>
    /\ Len(bookmarks) = 2
    /\ bookmarks[1].folder = S_General
    /\ bookmarks[2].folder = <<"w">>

\* C12: at the render after a confirmed Delete, selected is min(previous
\* selected, n - 1) for n visible items, and 0 when n = 0.
C12_ClampAfterDelete ==
    [][(pc = "confirm_getch" /\ modal_ch' \in {"y", "Y"}) =>
          selected' = IF Len(display_items') = 0 THEN 0
                      ELSE Min(selected, Len(display_items') - 1)]_vars

\* the last of three visible items was deleted: the selection has moved from
\* 2 to the new last item
C12_Witness ==
    /\ pc = "draw"
    /\ key = "d"
    /\ confirm \in {"y", "Y"}
    /\ entry.selected = 2
    /\ Len(display_items) = 2
    /\ selected = 1

\* a step of the Edit handler: its key is read, or one of its prompts is open
EditStep == (pc = "getch" /\ key' = "e") \/ (pc = "editor_getch" /\ prompt \in EditPrompts)

\* C13: Edit keeps the length and every record but the one at the original
\* index of the selected item; that record keeps its values when the title
\* or URL prompt returns "", and otherwise gets the values entered.
C13_EditInPlace ==
    [][EditStep =>
          IF display_items = <<>> THEN bookmarks' = bookmarks
          ELSE /\ bookmarks[SelectedIndex + 1] = display_items[selected + 1][2]
               /\ Len(bookmarks') = Len(bookmarks)
               /\ \A i \in 1..Len(bookmarks) :
                     i # SelectedIndex + 1 => bookmarks'[i] = bookmarks[i]
               /\ pc' = "editor_getch" => bookmarks' = bookmarks
               /\ (pc = "editor_getch" /\ pc' = "draw") =>
                     LET old == bookmarks[SelectedIndex + 1]
                         new == bookmarks'[SelectedIndex + 1]
                     IN  /\ (prompt # <<"Edit note">> /\ returned' = <<>>) => new = old
                         /\ (prompt = <<"Edit note">> /\ ~InDetail) =>
                               new = Bookmark(title, url, old.folder, returned')
                         /\ (prompt = <<"Edit title">> /\ InDetail /\ returned' # <<>>) =>
                               new = [old EXCEPT !.title = returned']
                         /\ (prompt = <<"Edit URL">> /\ InDetail /\ returned' # <<>>) =>
                               new = [old EXCEPT !.url = returned']
                         /\ (prompt = <<"Edit note">> /\ InDetail) =>
                               new = [old EXCEPT !.note = returned']]_vars

\* an Edit with the focus on the list has replaced the title of the second
\* record, shown under a folder filter as the first item
C13_Witness ==
    /\ pc = "draw"
    /\ key = "e"
    /\ prompt = <<"Edit note">>
    /\ focus = "list"
    /\ folder_filter = <<"w">>
    /\ entry.selected = 0
    /\ Len(bookmarks) >= 2
    /\ bookmarks[1].folder = S_General
    /\ title = <<"w">>
    /\ bookmarks[2].title = <<"w">>

\* C14 (as claimed): Escape in a title, URL or note prompt of Edit leaves the
\* record at the original index with the values it had when the prompt opened.
C14_EscapeDiscardsEdit ==
    [][(pc = "editor_getch" /\ prompt \in EditPrompts /\ modal_ch' = "ESC") =>
          bookmarks'[SelectedIndex + 1] = bookmarks[SelectedIndex + 1]]_vars

\* C15 (as claimed): after '/' and an Escape in the search prompt,
\* search_query, selected and offset are what they were before '/'.
C15_EscapeRestoresSearch ==
    (pc = "draw" /\ key = "/" /\ modal_ch = "ESC") =>
        /\ search_query = entry.search_query
        /\ selected = entry.selected
        /\ offset = entry.offset

\* C16 (as claimed): while a modal waits for its next key, bookmarks,
\* search_query, folder_filter, selected, offset, focus and detail_selected
\* do not change.
C16_ModalLeavesOuterState ==
    [][(pc \in {"editor_getch", "picker_getch", "confirm_getch"} /\ pc' = pc) =>
          UNCHANGED <<bookmarks, search_query, folder_filter, selected, offset, focus,
                      detail_selected>>]_vars

\* C17: the picker keeps 0 <= idx < n; Enter returns options[idx], Escape and
\* q return options[initial_idx], k and j move idx by -1 and +1 mod n, and any
\* other key leaves the picker open as it is.
C17_PickerResolves ==
    [][/\ pc' = "picker_getch" =>
            (0 <= picker_idx' /\ picker_idx' < Len(picker_options'))
       /\ pc = "picker_getch" =>
            LET n == Len(picker_options)
            IN  /\ modal_ch' = "ENTER" =>
                      (pc' = "draw" /\ returned' = picker_options[picker_idx + 1])
                /\ modal_ch' \in {"ESC", "q"} =>
                      (pc' = "draw" /\ returned' = picker_options[picker_initial_idx + 1])
                /\ modal_ch' = "k" =>
                      (pc' = "picker_getch" /\ picker_idx' = (picker_idx + n - 1) % n)
                /\ modal_ch' = "j" =>
                      (pc' = "picker_getch" /\ picker_idx' = (picker_idx + 1) % n)
                /\ modal_ch' \notin {"ENTER", "ESC", "q", "k", "j"} =>
                      (pc' = "picker_getch" /\ picker_idx' = picker_idx)]_vars

\* the picker of three options was left with Escape after the highlight had
\* moved away from the initial option
C17_Witness ==
    /\ pc = "draw"
    /\ key = "f"
    /\ modal_ch = "ESC"
    /\ Len(picker_options) = 3
    /\ picker_idx # picker_initial_idx
    /\ returned = picker_options[picker_initial_idx + 1]

\* C18: at every repaint of the line editor 0 <= pos <= len(buf),
\* view_start >= 0 and view_start <= pos <= view_start + display_width.
C18_CursorInWindow ==
    pc = "editor_getch" =>
        /\ 0 <= pos /\ pos <= Len(buf)
        /\ view_start >= 0
        /\ view_start <= pos
        /\ pos <= view_start + DisplayWidth(w)

\* the window has scrolled and the cursor has moved back inside the text
C18_Witness ==
    /\ pc = "editor_getch"
    /\ view_start > 0
    /\ pos < Len(buf)
    /\ modal_ch = "LEFT"

\* s without its leading and trailing spaces, character by character
Trimmed(s, t) ==
    \E a \in 0..Len(s), z \in 0..Len(s) :
        /\ a + z <= Len(s)
        /\ \A i \in 1..a : s[i] = " "
        /\ \A i \in (Len(s) - z + 1)..Len(s) : s[i] = " "
        /\ t = SubSeq(s, a + 1, Len(s) - z)
        /\ t = <<>> \/ (t[1] # " " /\ t[Len(t)] # " ")

\* C19: Enter returns the trimmed buffer and Escape ""; a printable key is
\* inserted at the cursor, and backspace removes the character before the
\* cursor, or nothing at position 0.
C19_EditorKeys ==
    [][pc = "editor_getch" =>
          /\ modal_ch' = "ENTER" => Trimmed(buf, returned')
          /\ modal_ch' = "ESC" => returned' = <<>>
          /\ (modal_ch' \in {"w", " "} /\ pc' = "editor_getch") =>
                /\ Len(buf') = Len(buf) + 1
                /\ pos' = pos + 1
                /\ buf'[pos + 1] = modal_ch'
                /\ \A i \in 1..pos : buf'[i] = buf[i]
                /\ \A i \in (pos + 1)..Len(buf) : buf'[i + 1] = buf[i]
          /\ (modal_ch' = "BS" /\ pos > 0) =>
                /\ Len(buf') = Len(buf) - 1
                /\ pos' = pos - 1
                /\ \A i \in 1..(pos - 1) : buf'[i] = buf[i]
                /\ \A i \in pos..Len(buf') : buf'[i] = buf[i + 1]
          /\ (modal_ch' = "BS" /\ pos = 0) => (buf' = buf /\ pos' = 0)]_vars

\* Enter after a space was inserted in front of the initial text: the text is
\* returned without the space
C19_Witness ==
    /\ pc = "draw"
    /\ modal_ch = "ENTER"
    /\ buf = <<" ", "b">>
    /\ returned = <<"b">>

\* C20: with a callback, a key that changes the buffer (insert, effective
\* backspace) is followed by one call with the new buffer; left, right and a
\* backspace at position 0 are followed by no call; without a callback there
\* is no call.
C20_OnChange ==
    [][(pc = "editor_getch" /\ pc' = "editor_getch"
            /\ modal_ch' \notin {"ENTER", "ESC"}) =>
          /\ (on_change /\ buf' # buf) => called' = buf'
          /\ (on_change /\ modal_ch' \in {"w", " "}) => called' = buf'
          /\ modal_ch' \in {"LEFT", "RIGHT"} => called' = Unset
          /\ (modal_ch' = "BS" /\ pos = 0) => called' = Unset
          /\ ~on_change => called' = Unset]_vars

\* an effective backspace in the search prompt was followed by a call with
\* the emptied buffer
C20_Witness ==
    /\ pc = "editor_getch"
    /\ on_change
    /\ modal_ch = "BS"
    /\ changed
    /\ buf = <<>>
    /\ called = <<>>

(***************************************************************************)
(* SpecLoad: startup.  load_bookmarks reads DATA_FILE, and the session     *)
(* goes on from what it returned with Add, Edit, Move and Delete.          *)
(*                                                                         *)
(* data_file.kind is what open() and json.load() make of the file:         *)
(* "missing" (open raises FileNotFoundError), "unreadable" (open raises    *)
(* PermissionError), "invalid" (json.load raises JSONDecodeError), or the  *)
(* type of the decoded top-level value: "null", "number", "string",        *)
(* "object", "list".  An item of a list is an object (dict = TRUE) with    *)
(* its four keys, Unset where the key is absent, or some other value.      *)
(***************************************************************************)
MaxFileItems == 1       \* longest list in DATA_FILE

FileItems ==
    {[dict |-> FALSE, title |-> Unset, url |-> Unset, folder |-> Unset, note |-> Unset]}
    \cup {[dict |-> TRUE, title |-> t, url |-> u, folder |-> f, note |-> Unset] :
            t \in {Unset, <<" ">>, <<"b">>}, u \in {Unset, <<"b">>}, f \in {Unset, <<" ">>}}

DataFiles ==
    {[kind |-> k, items |-> <<>>] :
        k \in {"missing", "unreadable", "invalid", "null", "number", "string", "object"}}
    \cup {[kind |-> "list", items |-> its] : its \in SeqsUpTo(FileItems, MaxFileItems)}

\* item.get(name, default)
ItemGet(value, default) == IF value = Unset THEN default ELSE value

\* the record load_bookmarks builds from one object of the list
CleanedItem(item) ==
    LET folder == strip(ItemGet(item.folder, S_General))
    IN  Bookmark(strip(ItemGet(item.title, <<>>)),
                 strip(ItemGet(item.url, <<>>)),
                 IF folder = <<>> THEN S_General ELSE folder,
                 strip(ItemGet(item.note, <<>>)))

\* load_bookmarks(): raised = TRUE where an exception leaves the function
load_bookmarks(f) ==
    CASE f.kind = "missing" -> [raised |-> FALSE, value |-> <<>>]
      [] f.kind = "unreadable" -> [raised |-> TRUE, value |-> <<>>]
      [] f.kind = "invalid" -> [raised |-> FALSE, value |-> <<>>]
      \* `for item in raw` on None or on a number: TypeError
      [] f.kind \in {"null", "number"} -> [raised |-> TRUE, value |-> <<>>]
      \* the characters of a string and the keys of an object are no dicts
      [] f.kind \in {"string", "object"} -> [raised |-> FALSE, value |-> <<>>]
      [] OTHER ->
           LET kept == SelectSeq(f.items,
                                 LAMBDA item :
                                     /\ item.dict
                                     /\ \/ CleanedItem(item).title # <<>>
                                        \/ CleanedItem(item).url # <<>>)
           IN  [raised |-> FALSE, value |-> [i \in 1..Len(kept) |-> CleanedItem(kept[i])]]

InitLoad ==
    /\ data_file \in DataFiles
    /\ bookmarks = <<>>
    /\ status = <<>>
    /\ folder_filter = <<>>
    /\ last_folder = S_General
    /\ search_query = <<>>
    /\ focus = "list"
    /\ settings_mode = FALSE
    /\ settings_view = "menu"
    /\ settings_selected_idx = 0
    /\ config = <<1>>
    /\ accent_fg = 1
    /\ COLORS = NumColors
    /\ h = MaxHeight /\ w = 40
    /\ selected = 0
    /\ offset = 0
    /\ detail_selected = 0
    /\ display_items = <<>>
    /\ detail_lines = <<>>
    /\ list_height = 0
    /\ key = "none" /\ title = Unset /\ url = Unset /\ confirm = "none"
    /\ store = <<>>
    /\ NoModal
    /\ pc = "load"

\* bookmarks = load_bookmarks() and the first pass through the top of the loop;
\* an exception that leaves load_bookmarks leaves main
Load ==
    /\ pc = "load"
    /\ LET r == load_bookmarks(data_file)
       IN  IF r.raised
           THEN /\ pc' = "raised"
                /\ UNCHANGED <<bookmarks, selected, offset, status, folder_filter,
                               last_folder, search_query, focus, detail_selected,
                               settings_mode, settings_selected_idx, h, w,
                               display_items, detail_lines, list_height>>
           ELSE Continue([Cur EXCEPT !.bookmarks = r.value])
    /\ UNCHANGED <<settings_view, accent_fg, config, key, title, url, confirm,
                   store, COLORS, data_file>>
    /\ UNCHANGED modalVars

NextLoad ==
    \/ Load
    \/ Draw
    \/ KeyTab
    \/ KeyUp
    \/ DoAdd
    \/ DoEdit
    \/ DoMove
    \/ DoDelete

SpecLoad == InitLoad /\ [][NextLoad]_vars

(***************************************************************************)
(* SpecLayout: the first frame of a session on a terminal of any size      *)
(* from 1 x 1 on.                                                          *)
(***************************************************************************)
MaxLayoutHeight == 12   \* tallest terminal tried
MaxLayoutWidth == 12    \* widest terminal tried

LayoutSizes == {<<hh, ww>> : hh \in 1..MaxLayoutHeight, ww \in 1..MaxLayoutWidth}

\* the rest of the state at the first pass through the top of the loop,
\* once the collection, the terminal and the settings are given
SessionStart ==
    /\ status = <<>>
    /\ folder_filter = <<>>
    /\ last_folder = S_General
    /\ search_query = <<>>
    /\ focus = "list"
    /\ settings_mode = FALSE
    /\ settings_view = "menu"
    /\ offset = 0
    /\ list_height = 0
    /\ key = "none" /\ title = Unset /\ url = Unset /\ confirm = "none"
    /\ store = <<>>
    /\ data_file = NoFile
    /\ NoModal
    /\ display_items = build_display_items(bookmarks, folder_filter, search_query)
    /\ selected = TopSelected(0, Len(display_items))
    /\ detail_lines = IF DetailWidth(w) >= 6 /\ display_items # <<>>
                      THEN DetailLines(display_items[selected + 1][2])
                      ELSE <<>>
    /\ detail_selected = 0
    /\ pc = "draw"

InitLayout ==
    /\ bookmarks = <<Bookmark(<<"b">>, <<"b">>, S_General, <<>>)>>
    /\ \E sz \in LayoutSizes : h = sz[1] /\ w = sz[2]
    /\ COLORS = NumColors
    /\ config = <<1>>
    /\ accent_fg = 1
    /\ settings_selected_idx = 0
    /\ SessionStart

NextLayout == Draw

SpecLayout == InitLayout /\ [][NextLayout]_vars

(***************************************************************************)
(* SpecSettings: the settings screen on terminals of 0 to MaxColors        *)
(* colors, from a settings store that holds an accent color or none.       *)
(***************************************************************************)
MaxColors == 4          \* largest curses.COLORS tried

\* the accent colors load_config() may find
StoredAccents == {1, 2}

InitSettings ==
    /\ bookmarks = <<Bookmark(<<"b">>, <<"b">>, S_General, <<>>)>>
    /\ h = MaxHeight /\ w = 40
    /\ COLORS \in 0..MaxColors
    /\ config \in {<<>>} \cup {<<c>> : c \in StoredAccents}
    \* accent_fg = int(config.get("accent_color", 6))
    /\ accent_fg = IF config = <<>> THEN 6 ELSE config[1]
    /\ settings_selected_idx = IF available_colors # <<>>
                               THEN IndexOr0(available_colors, accent_fg)
                               ELSE 0
    /\ SessionStart

NextSettings ==
    \/ Draw
    \/ KeySettings
    \/ SettingsQuit
    \/ SettingsColors
    \/ SettingsMove
    \/ SettingsSelect

SpecSettings == InitSettings /\ [][NextSettings]_vars

(***************************************************************************)
(* SpecFolder: prompt_folder, one key per action, as Add and Move call it: *)
(* the picker over "<Add new>" and the folders, then the line editor if    *)
(* "<Add new>" was chosen.  The prompts Add shows after it return what     *)
(* PromptResults gives.                                                    *)
(***************************************************************************)
\* `val or current_default` without the fallback
FolderOrDefaultRaw(val, current_default) == val
\* `val or current_default`
FolderOrDefault(val, current_default) == IF val = <<>> THEN current_default ELSE val

\* the default that the handler of key k passes to prompt_folder
FolderDefault(k) == IF k = "a" THEN DefaultFolder(Cur) ELSE EditCurrent.folder

\* current_default = default or "General"
CurrentDefault(k) == FolderOrDefault(FolderDefault(k), S_General)

\* a / m up to the first getch of the folder picker
EnterFolder(k) ==
    /\ pc = "getch"
    /\ key' = k
    /\ entry' = Entry
    /\ modal_ch' = "none"
    /\ UNCHANGED <<title, url, confirm, prompt, buf, pos, view_start, changed, on_change,
                   called, returned, settings_view, accent_fg, config, store, COLORS,
                   data_file>>
    /\ IF k = "m" /\ display_items = <<>>
       THEN /\ Continue(Cur)
            /\ UNCHANGED <<picker_options, picker_initial_idx, picker_idx>>
       ELSE /\ picker_options' = <<S_AddNew>> \o gather_folders(bookmarks)
            /\ picker_initial_idx' = IndexOr0(picker_options', CurrentDefault(k))
            /\ picker_idx' = picker_initial_idx'
            /\ pc' = "picker_getch"
            /\ UNCHANGED <<bookmarks, selected, offset, status, folder_filter, last_folder,
                           search_query, focus, detail_selected, settings_mode,
                           settings_selected_idx, h, w, display_items, detail_lines,
                           list_height>>

\* prompt_folder has returned f: the rest of the handler
FolderReturned(f) ==
    /\ returned' = f
    /\ IF key = "m"
       THEN /\ Continue(move(Cur, f))
            /\ UNCHANGED <<title, url>>
       ELSE \E t \in PromptResults(<<>>) :
              /\ title' = t
              /\ IF t = <<>>
                 THEN /\ Continue(add(Cur, f, t, <<>>, <<>>))
                      /\ UNCHANGED url
                 ELSE \E u \in PromptResults(<<>>) :
                        /\ url' = u
                        /\ IF u = <<>>
                           THEN Continue(add(Cur, f, t, u, <<>>))
                           ELSE \E n \in PromptResults(<<>>) :
                                   Continue(add(Cur, f, t, u, n))

\* a key read by the folder picker of prompt_folder
FolderPickerKey(c) ==
    /\ pc = "picker_getch"
    /\ key \in {"a", "m"}
    /\ modal_ch' = c
    /\ UNCHANGED <<key, confirm, picker_options, picker_initial_idx, entry>>
    /\ IF c \in {"ENTER", "ESC", "q"}
       THEN LET choice == PickerReturn(c, picker_options, picker_initial_idx, picker_idx)
            IN  /\ UNCHANGED picker_idx
                /\ IF choice = S_AddNew
                   THEN /\ OpenEditor(<<"Folder">>, <<>>, FALSE)
                        /\ returned' = choice
                        /\ UNCHANGED <<bookmarks, title, url>>
                        /\ ModalFrame
                   ELSE /\ FolderReturned(FolderOrDefault(choice, CurrentDefault(key)))
                        /\ UNCHANGED <<prompt, buf, pos, view_start, changed, on_change,
                                       called, settings_view, accent_fg, config, store,
                                       COLORS, data_file>>
       ELSE /\ picker_idx' = PickerMove(c, picker_idx, Len(picker_options))
            /\ pc' = "picker_getch"
            /\ UNCHANGED <<returned, title, url, prompt, buf, pos, view_start, changed,
                           on_change, called, settings_view, accent_fg, config, store,
                           COLORS, data_file>>
            /\ UNCHANGED <<bookmarks, selected, offset, status, folder_filter, last_folder,
                           search_query, focus, detail_selected, settings_mode,
                           settings_selected_idx, h, w, display_items, detail_lines,
                           list_height>>

\* the "Folder" prompt returns on key c, and prompt_folder with it
EndFolder(c) ==
    /\ pc = "editor_getch"
    /\ prompt = <<"Folder">>
    /\ c \in {"ENTER", "ESC"}
    /\ modal_ch' = c
    /\ buf' = IF c = "ESC" THEN <<>> ELSE buf
    /\ changed' = (c = "ESC")
    /\ called' = Unset
    /\ FolderReturned(FolderOrDefault(EditorResult(buf, c), CurrentDefault(key)))
    /\ UNCHANGED <<pos, view_start, on_change, prompt, key, confirm>>
    /\ ModalRest

FolderKeysTyped == {"w", " ", "BS"}

InitFolder == ModalStart(MaxEditorBookmarks)

NextFolder ==
    \/ \E k \in {"a", "m"} : EnterFolder(k)
    \/ \E c \in PickerKeysTyped : FolderPickerKey(c)
    \/ \E c \in FolderKeysTyped : EditorKey(c)
    \/ \E c \in {"ENTER", "ESC"} : EndFolder(c)

SpecFolder == InitFolder /\ [][NextFolder]_vars

(***************************************************************************)
(* Saving, quitting, settings, focus and movement (Spec)                   *)
(***************************************************************************)

\* C21: the collection is written to the store exactly once per session,
\* by the step on which q ends the main loop, and what is written is the
\* collection in memory at that moment; while the session runs nothing
\* has been written.
C21_SavedOnceAtQuit ==
    /\ [](IF pc = "exit" THEN store = <<bookmarks>> ELSE store = <<>>)
    /\ [][store' # store => pc = "getch" /\ key' = "q" /\ pc' = "exit"]_vars

\* the session has ended after a record was given the title "w", and the
\* store holds that collection
C21_Witness ==
    /\ pc = "exit" /\ key = "q"
    /\ store = <<bookmarks>>
    /\ \E i \in 1..Len(bookmarks) : bookmarks[i].title = <<"w">>

\* C24 (as claimed): when Add or Edit is abandoned because the title or
\* the URL prompt returned an empty text, the status text is non-empty at
\* the next render of the main view.
C24_AbortIsReported ==
    (pc = "draw" /\ key \in {"a", "e"} /\ (title = <<>> \/ url = <<>>))
        => status # <<>>

\* C25: Tab with the focus on the list moves it to the detail pane iff the
\* pane is at least 6 columns wide and a visible record is selected, and
\* leaves it on the list otherwise; Tab with the focus on the detail pane
\* moves it to the list; Tab leaves bookmarks, selected and offset alone.
C25_TabTogglesFocus ==
    [][(pc = "getch" /\ key' = "TAB") =>
          /\ focus' = IF /\ focus = "list"
                         /\ DetailWidth(w) >= 6
                         /\ display_items # <<>>
                         /\ 0 <= selected /\ selected < Len(display_items)
                      THEN "detail"
                      ELSE "list"
          /\ UNCHANGED <<bookmarks, selected, offset>>]_vars

\* Tab was pressed with the focus on the list of a terminal too narrow for
\* a detail pane, and the focus stayed on the list although a record is
\* selected
C25_Witness ==
    /\ pc = "draw" /\ key = "TAB"
    /\ focus = "list"
    /\ DetailWidth(w) < 6
    /\ display_items # <<>>

\* C26: with the focus on the list and n visible items, k moves the
\* selection up and j moves it down by one and both stop at the ends
\* (k at 0 leaves 0, j at n - 1 leaves n - 1), g selects 0 and G selects
\* max(0, n - 1), at the next render.
C26_MovementClamps ==
    [][(pc = "getch" /\ focus = "list" /\ key' \in {"k", "j", "g", "G"}) =>
          LET n == Len(display_items)
          IN  /\ pc' = "draw"
              /\ Len(display_items') = n
              /\ key' = "k" => selected' = Max(0, selected - 1)
              /\ key' = "j" => selected' = Min(Max(0, n - 1), selected + 1)
              /\ (key' = "k" /\ selected = 0) => selected' = 0
              /\ (key' = "j" /\ selected = n - 1) => selected' = n - 1
              /\ key' = "g" => selected' = 0
              /\ key' = "G" => selected' = Max(0, n - 1)]_vars

\* j was pressed on the last of two items of a one-row list (the offset
\* shows that the last item was selected before the key) and the selection
\* is still the last item
C26_Witness ==
    /\ pc = "draw" /\ key = "j" /\ focus = "list"
    /\ Len(display_items) = 2
    /\ list_height = 1 /\ offset = 1
    /\ selected = 1

(***************************************************************************)
(* Loading and record well-formedness (SpecLoad)                           *)
(***************************************************************************)

\* C27: from the collection load_bookmarks returned on, after any sequence
\* of Add, Edit, Move and Delete, aborted and cancelled ones included, no
\* record has both its title and its url empty and every record has a
\* non-empty folder.
C27_RecordsWellFormed ==
    \A i \in 1..Len(bookmarks) :
        /\ ~(bookmarks[i].title = <<>> /\ bookmarks[i].url = <<>>)
        /\ bookmarks[i].folder # <<>>

\* a record loaded with a url and no title was edited, the Edit was
\* abandoned at the empty title, and a second record has been added
C27_Witness ==
    /\ pc = "draw" /\ key = "e" /\ title = <<>>
    /\ Len(bookmarks) = 2
    /\ bookmarks[1].title = <<>> /\ bookmarks[1].url = <<"b">>

\* the file cannot be read as a list of objects
ReadFails(f) ==
    \/ f.kind \in {"missing", "unreadable", "invalid", "null", "number", "string", "object"}
    \/ f.kind = "list" /\ \E i \in 1..Len(f.items) : ~f.items[i].dict

\* C29 (as claimed): whenever DATA_FILE cannot be read as a list of objects
\* (missing, unreadable, invalid JSON, or a top-level value that is not a
\* list of objects), load_bookmarks raises nothing and the session starts
\* from the empty collection.
C29_FailedLoadIsEmpty ==
    ReadFails(data_file) =>
        /\ pc # "raised"
        /\ (pc = "draw" /\ key = "none") => bookmarks = <<>>

\* C30: Move overwrites the folder of the record at the original index of
\* the selected item with the chosen folder and leaves its title, url and
\* note, every other record, the length and the order of the collection
\* as they were; and a Move whose folder picker is cancelled (Escape or q)
\* leaves the collection equal to what it was.
C30_MoveOverwritesFolderOnly ==
    /\ [][(pc = "getch" /\ key' = "m" /\ display_items # <<>>) =>
             LET oi == display_items[selected + 1][1]
             IN  /\ Len(bookmarks') = Len(bookmarks)
                 /\ \A i \in 1..Len(bookmarks) :
                        i # oi + 1 => bookmarks'[i] = bookmarks[i]
                 /\ bookmarks'[oi + 1] = [bookmarks[oi + 1] EXCEPT !.folder = last_folder']
                 /\ last_folder' \in
                        PromptFolderResults(bookmarks, bookmarks[oi + 1].folder)]_vars
    /\ []((pc = "getch" /\ display_items # <<>>) =>
             \A pk \in PickerKeySeqs, ek \in PromptKeySeqs :
                 pk[Len(pk)] \in {"ESC", "q"} =>
                     move(Cur, prompt_folder(bookmarks,
                                             display_items[selected + 1][2].folder,
                                             pk, ek)).bookmarks = bookmarks)

\* a record that has a note was moved to the folder "w" and kept its note
C30_Witness ==
    /\ pc = "draw" /\ key = "m"
    /\ last_folder = <<"w">>
    /\ \E i \in 1..Len(bookmarks) :
          bookmarks[i].folder = <<"w">> /\ bookmarks[i].note = <<"w">>

(***************************************************************************)
(* Layout (SpecLayout)                                                     *)
(***************************************************************************)

\* C28 (as claimed): on a terminal of any size the regions of the main
\* view lie inside the terminal: list_width + detail_width <= w, the
\* header rows, body_height and the footer rows together are at most h,
\* and list_height >= 1.
C28_RegionsInsideTerminal ==
    pc = "getch" =>
        /\ ListWidth(w) + DetailWidth(w) <= w
        /\ 3 + BodyHeight(h, status) + FooterRows(status) <= h
        /\ list_height >= 1

(***************************************************************************)
(* Settings (SpecSettings)                                                 *)
(***************************************************************************)

\* C23: the accent color in memory and the one in the settings store
\* change only on Enter / Space in the color picker of the settings
\* screen; after each such key the stored accent_color is the accent
\* color in memory; and once they agree they agree at every later state.
C23_AccentPersisted ==
    /\ [][(accent_fg' # accent_fg \/ config' # config) =>
             (pc = "settings" /\ settings_view = "colors" /\ key' = "ENTER")]_vars
    /\ [][(pc = "settings" /\ settings_view = "colors" /\ key' = "ENTER") =>
             config' = <<accent_fg'>>]_vars
    /\ [][config = <<accent_fg>> => config' = <<accent_fg'>>]_vars

\* color 3 was picked, which no settings store of InitSettings holds, and
\* it is in the store
C23_Witness ==
    /\ pc = "settings" /\ key = "ENTER"
    /\ accent_fg = 3
    /\ config = <<3>>

(***************************************************************************)
(* Quitting (SpecKeys)                                                     *)
(***************************************************************************)

C32_CancelKeepsFilter ==
    [][(pc = "picker_getch" /\ key = "f" /\ modal_ch' \in {"ESC", "q"}) =>
          folder_filter' = folder_filter]_vars

\* C33 (as claimed): whenever the main view waits for a key with the focus
\* on the detail pane, the pane is at least 6 columns wide and the visible
\* list is not empty.
C33_DetailFocusHasPane ==
    (pc = "getch" /\ focus = "detail") =>
        (DetailWidth(w) >= 6 /\ display_items # <<>>)

(***************************************************************************)
(* Folder selection (SpecFolder)                                           *)
(***************************************************************************)

\* C31: when the picker of prompt_folder ends on "<Add new>" the line
\* editor opens on an empty "Folder" prompt; when that prompt is cancelled
\* or returns an empty name, prompt_folder returns the default it was
\* called with ("General" for an empty default), and otherwise the name
\* typed; whatever the collection, the default and the keys, what
\* prompt_folder returns is non-empty, and Move writes it to the record.
C31_FolderIsUsable ==
    [][/\ (/\ pc = "picker_getch"
           /\ modal_ch' \in {"ENTER", "ESC", "q"}
           /\ S_AddNew = IF modal_ch' = "ENTER"
                         THEN picker_options[picker_idx + 1]
                         ELSE picker_options[picker_initial_idx + 1]) =>
              (pc' = "editor_getch" /\ prompt' = <<"Folder">> /\ buf' = <<>>)
       /\ (pc \in {"picker_getch", "editor_getch"} /\ pc' = "draw") =>
              /\ returned' # <<>>
              /\ key = "m" => bookmarks'[SelectedIndex + 1].folder = returned'
       /\ (pc = "editor_getch" /\ pc' = "draw") =>
              returned' = IF modal_ch' = "ESC" \/ strip(buf) = <<>>
                          THEN IF FolderDefault(key) = <<>>
                               THEN S_General
                               ELSE FolderDefault(key)
                          ELSE strip(buf)]_vars

\* Move on a record of folder "w": "<Add new>" was chosen, the "Folder"
\* prompt was left with Enter on a blank name, and prompt_folder returned
\* "w"
C31_Witness ==
    /\ pc = "draw" /\ key = "m"
    /\ prompt = <<"Folder">> /\ modal_ch = "ENTER"
    /\ buf = <<" ">>
    /\ returned = <<"w">>
====
